---- MODULE Spec2Model ----
(***************************************************************************)
(* Match-3 board engine: the class Board of src/oo/src/init.ts (with the   *)
(* SequenceGenerator of the same file) and the functional board of         *)
(* src/unnamed/part_000.                                                   *)
(*                                                                         *)
(* Rows and columns are 0-based as in the source.  A grid is a function    *)
(* from row to (function from column to cell).  The JavaScript value       *)
(* `undefined` (an empty cell, an out-of-bounds lookup) is the string      *)
(* Empty.                                                                  *)
(***************************************************************************)
EXTENDS Integers, Sequences, FiniteSets, TLC

\* ------------------------------------------------------------- bounds
MaxWidth == 4
MaxHeight == 3
MaxCells == 12
MaxFreeCells == 9
MaxSeqLen == 3
MaxListeners == 2
MaxLog == 4
MaxMoves == 1
MaxRefillCells == 6

\* Piece values the generators yield
Values == {"A", "B"}
Empty == "undefined"

\* Board sizes explored: every width x height within the bounds.
Sizes(cells) == {s \in (1..MaxWidth) \X (1..MaxHeight) : s[1] * s[2] <= cells}

VARIABLES
  width,        \* Board.width
  height,       \* Board.height
  generator,    \* Board.generator: [kind, sequence, index]
  board,        \* Board.board
  listeners,    \* Board.listeners: the registered callbacks, in order
  matches,      \* Board.matches
  pc,           \* where control is: "new" (before the constructor), a point inside
                \* an operation, "returned" (the caller holds the result), "idle"
  op,           \* the public operation running or just returned
  ret,          \* canMove's result (for op = "move": the result of its canMove test);
                \* read only while op is "move" or "canMove", FALSE otherwise
  ev,           \* the event alert() is delivering
  li,           \* alert(): number of listeners already invoked for ev
  columnMatch,  \* findMatches' local columnMatch
  rowMatch,     \* findMatches' local rowMatch
  log,          \* listener invocations <<listener, event>> of the running operation
  drawn,        \* values the last step obtained from generator.next(), in call order
  moves,        \* number of swaps move has applied so far
  outer         \* the operation suspended inside a listener that has called move:
                \* <<>> or one frame [pc, ev, li, columnMatch, rowMatch]

vars == <<width, height, generator, board, listeners, matches, pc, op, ret, ev, li,
          columnMatch, rowMatch, log, drawn, moves, outer>>

\* ---------------------------------------------------------- positions
Pos(r, c) == [row |-> r, col |-> c]

\* Board.positions(): row-major
positions == [i \in 1..(width * height) |->
                Pos((i - 1) \div width, (i - 1) % width)]

\* The cells of the grid
Cells == {Pos(r, c) : r \in 0..(height - 1), c \in 0..(width - 1)}

\* The grid and a border of one around it
Ring == {Pos(r, c) : r \in (-1)..height, c \in (-1)..width}

\* Arguments tried for canMove/move: every cell of the grid, and one position just
\* beyond each of its four edges.
AnyPos == {p \in Ring : (p.row \in 0..(height - 1) /\ p.col \in 0..(width - 1))
                        \/ (p.row = 0 /\ p.col \in {-1, width})
                        \/ (p.col = 0 /\ p.row \in {-1, height})}

\* ---------------------------------------------------------- generator
SeqsOver(S, n) == UNION {[1..k -> S] : k \in 1..n}

\* SequenceGenerator.next(): charAt(index), then index = (index + 1) % length
next(g) == [value |-> g.sequence[g.index + 1],
            gen |-> [g EXCEPT !.index = (g.index + 1) % Len(g.sequence)]]

\* k successive calls of next(): the i-th call finds index advanced i - 1 times
nextN(g, k) ==
  [values |-> [i \in 1..k |->
                 next([g EXCEPT !.index = (g.index + i - 1) % Len(g.sequence)]).value],
   gen |-> [g EXCEPT !.index = (g.index + k) % Len(g.sequence)]]

\* The outcomes of k successive generator.next() calls.  A generator of kind "any"
\* is an arbitrary implementation of Generator<T>: each call may yield any value.
Draws(g, k) == IF g.kind = "seq" THEN {nextN(g, k)}
               ELSE {[values |-> v, gen |-> g] : v \in [1..k -> Values]}

Generators == {[kind |-> "seq", sequence |-> s, index |-> 0] : s \in SeqsOver(Values, MaxSeqLen)}
              \cup {[kind |-> "any", sequence |-> <<>>, index |-> 0]}

\* ------------------------------------------------------------- access
\* inBounds with > in place of >=: row = height and col = width pass the test
inBounds_off(p) == ~(p.row < 0 \/ p.col < 0 \/ p.row > height \/ p.col > width)

\* The bounds test of Board.piece: TRUE when piece indexes the grid array.
inBounds(p) == ~(p.row < 0 \/ p.col < 0 \/ p.row >= height \/ p.col >= width)

\* this.board[row][col] as JavaScript evaluates it on an array of arrays:
\* undefined beyond a row's end, a TypeError beyond the rows.
index(b, r, c) == IF r \notin DOMAIN b THEN "TypeError"
                  ELSE IF c \notin DOMAIN b[r] THEN Empty ELSE b[r][c]

\* Board.piece
piece(b, p) == IF inBounds(p) THEN index(b, p.row, p.col) ELSE Empty

\* part_000 piece: the same lookup, its bounds test written positively
pieceF(b, p) ==
  IF p.row >= 0 /\ p.row < height /\ p.col >= 0 /\ p.col < width
  THEN index(b, p.row, p.col) ELSE Empty

\* ------------------------------------------------------------ canMove
\* One assignment this.board[r][c] = v.  JavaScript grows a row written beyond its
\* end; a write into a missing row throws (see changeThrows) and stores nothing.
store(b, r, c, v) == IF r \notin DOMAIN b THEN b
                     ELSE [b EXCEPT ![r] = IF c \in DOMAIN @ THEN [@ EXCEPT ![c] = v]
                                           ELSE (c :> v) @@ @]

\* part_000 swap
swap(b, first, second) ==
  LET firstPiece == pieceF(b, first)
      secondPiece == pieceF(b, second)
  IN store(store(b, first.row, first.col, secondPiece),
           second.row, second.col, firstPiece)

\* change without its temporaries: the second assignment reads the cell the first
\* one has just overwritten
change_bad(b, first, second) ==
  LET secondPiece == piece(b, second)
  IN store(store(b, first.row, first.col, secondPiece),
           second.row, second.col, secondPiece)

\* Board.change: exchange the pieces at two positions
change(b, first, second) ==
  LET firstPiece == piece(b, first)
      secondPiece == piece(b, second)
  IN store(store(b, first.row, first.col, secondPiece),
           second.row, second.col, firstPiece)

\* Board.change raises a TypeError when it indexes a row the grid does not have.
changeThrows(b, first, second) == first.row \notin DOMAIN b \/ second.row \notin DOMAIN b

\* part_000 checkColumnMatch
checkColumnMatch(b, position, testPiece) ==
  \E i \in (position.col - 2)..(position.col + 2) :
     /\ i >= 0 /\ i + 2 < width
     /\ pieceF(b, Pos(position.row, i)) = testPiece
     /\ pieceF(b, Pos(position.row, i + 1)) = testPiece
     /\ pieceF(b, Pos(position.row, i + 2)) = testPiece

\* part_000 checkRowMatch
checkRowMatch(b, position, testPiece) ==
  \E i \in (position.row - 2)..(position.row + 2) :
     /\ i >= 0 /\ i + 2 < height
     /\ pieceF(b, Pos(i, position.col)) = testPiece
     /\ pieceF(b, Pos(i + 1, position.col)) = testPiece
     /\ pieceF(b, Pos(i + 2, position.col)) = testPiece

\* evaluateColumnMatch with its loop started at position.col: the windows that
\* reach the position from the left are not tried
evaluateColumnMatch_right(b, position, targetPiece) ==
  \E i \in (position.col)..(position.col + 2) :
     /\ i >= 0 /\ i + 2 < width
     /\ piece(b, Pos(position.row, i)) = targetPiece
     /\ piece(b, Pos(position.row, i + 1)) = targetPiece
     /\ piece(b, Pos(position.row, i + 2)) = targetPiece

\* Board.evaluateColumnMatch: windows along the row
evaluateColumnMatch(b, position, targetPiece) ==
  \E i \in (position.col - 2)..(position.col + 2) :
     /\ i >= 0 /\ i + 2 < width
     /\ piece(b, Pos(position.row, i)) = targetPiece
     /\ piece(b, Pos(position.row, i + 1)) = targetPiece
     /\ piece(b, Pos(position.row, i + 2)) = targetPiece

\* Board.evaluateRowMatch: windows along the column
evaluateRowMatch(b, position, targetPiece) ==
  \E i \in (position.row - 2)..(position.row + 2) :
     /\ i >= 0 /\ i + 2 < height
     /\ piece(b, Pos(i, position.col)) = targetPiece
     /\ piece(b, Pos(i + 1, position.col)) = targetPiece
     /\ piece(b, Pos(i + 2, position.col)) = targetPiece

\* The checks of canMove without the last one
anyMatch_three(b, positionA, positionB, pieceA, pieceB) ==
  \/ evaluateColumnMatch(b, positionA, pieceB)
  \/ evaluateColumnMatch(b, positionB, pieceA)
  \/ evaluateRowMatch(b, positionA, pieceB)

\* The four checks canMove makes on the speculatively swapped grid.
anyMatch(b, positionA, positionB, pieceA, pieceB) ==
  \/ evaluateColumnMatch(b, positionA, pieceB)
  \/ evaluateColumnMatch(b, positionB, pieceA)
  \/ evaluateRowMatch(b, positionA, pieceB)
  \/ evaluateRowMatch(b, positionB, pieceA)

\* canMove accepting only neighbouring cells
canMove_neighbours(b, positionA, positionB) ==
  LET pieceA == piece(b, positionA)
      pieceB == piece(b, positionB)
  IN IF pieceA = Empty \/ pieceB = Empty \/ pieceA = pieceB
     THEN [result |-> FALSE, board |-> b, error |-> FALSE]
     ELSE IF \/ (positionA.col = positionB.col /\ positionA.row - positionB.row \in {-1, 1})
             \/ (positionA.row = positionB.row /\ positionA.col - positionB.col \in {-1, 1})
     THEN LET swapped == change(b, positionA, positionB)
          IN IF anyMatch(swapped, positionA, positionB, pieceA, pieceB)
             THEN [result |-> TRUE, board |-> change(swapped, positionA, positionB),
                   error |-> changeThrows(b, positionA, positionB)]
             ELSE [result |-> FALSE, board |-> change(swapped, positionA, positionB),
                   error |-> changeThrows(b, positionA, positionB)]
     ELSE [result |-> FALSE, board |-> b, error |-> FALSE]

\* canMove without the swap back of its else branch (line 139)
canMove_noRestore(b, positionA, positionB) ==
  LET pieceA == piece(b, positionA)
      pieceB == piece(b, positionB)
  IN IF pieceA = Empty \/ pieceB = Empty \/ pieceA = pieceB
     THEN [result |-> FALSE, board |-> b, error |-> FALSE]
     ELSE IF positionA.col = positionB.col \/ positionA.row = positionB.row
     THEN LET swapped == change(b, positionA, positionB)
          IN IF anyMatch(swapped, positionA, positionB, pieceA, pieceB)
             THEN [result |-> TRUE, board |-> change(swapped, positionA, positionB),
                   error |-> changeThrows(b, positionA, positionB)]
             ELSE [result |-> FALSE, board |-> swapped,
                   error |-> changeThrows(b, positionA, positionB)]
     ELSE [result |-> FALSE, board |-> b, error |-> FALSE]

\* Board.canMove: result is the boolean returned, board the grid it leaves behind,
\* error whether it raised.
canMove(b, positionA, positionB) ==
  LET pieceA == piece(b, positionA)
      pieceB == piece(b, positionB)
  IN IF pieceA = Empty \/ pieceB = Empty \/ pieceA = pieceB
     THEN [result |-> FALSE, board |-> b, error |-> FALSE]
     ELSE IF positionA.col = positionB.col \/ positionA.row = positionB.row
     THEN LET swapped == change(b, positionA, positionB)
          IN IF anyMatch(swapped, positionA, positionB, pieceA, pieceB)
             THEN [result |-> TRUE, board |-> change(swapped, positionA, positionB),
                   error |-> changeThrows(b, positionA, positionB)]
             ELSE [result |-> FALSE, board |-> change(swapped, positionA, positionB),
                   error |-> changeThrows(b, positionA, positionB)]
     ELSE [result |-> FALSE, board |-> b, error |-> FALSE]

\* part_000 canMove: the same test on the functional board; the swap is undone
\* before the four results are combined.
canMoveF(b, first, second) ==
  LET firstPiece == pieceF(b, first)
      secondPiece == pieceF(b, second)
  IN IF firstPiece = Empty \/ secondPiece = Empty \/ firstPiece = secondPiece
     THEN [result |-> FALSE, board |-> b, error |-> FALSE]
     ELSE IF first.row = second.row \/ first.col = second.col
     THEN LET swapped == swap(b, first, second)
              check1 == checkColumnMatch(swapped, first, secondPiece)
              check2 == checkColumnMatch(swapped, second, firstPiece)
              check3 == checkRowMatch(swapped, first, secondPiece)
              check4 == checkRowMatch(swapped, second, firstPiece)
          IN [result |-> check1 \/ check2 \/ check3 \/ check4,
              board |-> swap(swapped, first, second),
              error |-> changeThrows(b, first, second)]
     ELSE [result |-> FALSE, board |-> b, error |-> FALSE]

\* --------------------------------------------------------------- scan
\* findColumnMatch with its last comparison negated
findColumnMatch_never(b, row, col) ==
  LET piece1 == piece(b, Pos(row, col))
      piece2 == piece(b, Pos(row, col + 1))
      piece3 == piece(b, Pos(row, col + 2))
  IN piece1 = piece2 /\ piece2 = piece3 /\ piece1 # piece3

\* The test of Board.findColumnMatch: three equal cells (row, col .. col+2)
findColumnMatch(b, row, col) ==
  LET piece1 == piece(b, Pos(row, col))
      piece2 == piece(b, Pos(row, col + 1))
      piece3 == piece(b, Pos(row, col + 2))
  IN piece1 = piece2 /\ piece2 = piece3 /\ piece1 = piece3

\* The test of Board.findRowMatch: three equal cells (row .. row+2, col)
findRowMatch(b, row, col) ==
  LET piece1 == piece(b, Pos(row, col))
      piece2 == piece(b, Pos(row + 1, col))
      piece3 == piece(b, Pos(row + 2, col))
  IN piece1 = piece2 /\ piece2 = piece3 /\ piece1 = piece3

\* columnMatchAt with the positions taken one column too far to the right
columnMatchAt_shifted(b, row, col) ==
  [matched |-> piece(b, Pos(row, col)),
   positions |-> <<Pos(row, col + 1), Pos(row, col + 2), Pos(row, col + 3)>>]

\* The Match record findColumnMatch / findRowMatch build
columnMatchAt(b, row, col) ==
  [matched |-> piece(b, Pos(row, col)),
   positions |-> <<Pos(row, col), Pos(row, col + 1), Pos(row, col + 2)>>]

rowMatchAt(b, row, col) ==
  [matched |-> piece(b, Pos(row, col)),
   positions |-> <<Pos(row, col), Pos(row + 1, col), Pos(row + 2, col)>>]

\* The last element in row-major order: a scan that keeps the latest hit
First_last(S) == CHOOSE p \in S : \A q \in S : p.row * width + p.col >= q.row * width + q.col

\* Row-major first element of a set of positions (the order of the nested loops)
First(S) == CHOOSE p \in S : \A q \in S : p.row * width + p.col <= q.row * width + q.col

\* Cells visited by the first loop nest of findMatches: row < height, col < width - 2
columnScan(h, w) == {Pos(r, c) : r \in 0..(h - 1), c \in 0..(w - 3)}

\* rowScan with the loop bound written row < height - 3
rowScan_short(h, w) == {Pos(r, c) : r \in 0..(h - 4), c \in 0..(w - 1)}

\* Cells visited by the second loop nest of findMatches: row < height - 2, col < width
rowScan(h, w) == {Pos(r, c) : r \in 0..(h - 3), c \in 0..(w - 1)}

\* The cells of each loop nest at which the test succeeds; the loop calls the test
\* only until the first success.
columnHits(b) == {p \in columnScan(height, width) : findColumnMatch(b, p.row, p.col)}
rowHits(b) == {p \in rowScan(height, width) : findRowMatch(b, p.row, p.col)}

\* ------------------------------------------------------------- refill
\* rowAbove without its loop: the row right above, empty or not
rowAbove_adjacent(b, r, col) == r

\* The while loop of refillBoard: the nearest non-empty row above, or -1
RECURSIVE rowAbove(_, _, _)
rowAbove(b, r, col) == IF r >= 0 /\ b[r][col] = Empty THEN rowAbove(b, r - 1, col) ELSE r

\* refillFrom with the row loop ended at row > 0: the top row is never processed
RECURSIVE refillFrom_skipTop(_, _, _, _, _)
refillFrom_skipTop(b, col, row, supply, n) ==
  IF col >= width THEN [board |-> b, used |-> n]
  ELSE IF row < 1 THEN refillFrom_skipTop(b, col + 1, height - 1, supply, n)
  ELSE IF b[row][col] = Empty
  THEN LET above == rowAbove(b, row - 1, col)
       IN IF above >= 0
          THEN refillFrom_skipTop([b EXCEPT ![row][col] = b[above][col], ![above][col] = Empty],
                                  col, row - 1, supply, n)
          ELSE refillFrom_skipTop([b EXCEPT ![row][col] = supply[n + 1]],
                                  col, row - 1, supply, n + 1)
  ELSE refillFrom_skipTop(b, col, row - 1, supply, n)

\* The loops of Board.refillBoard from cell (row, col) on: columns left to right,
\* rows bottom to top; supply[n + 1] is what the next generator.next() returns.
\* newColumn collects the column just processed and is written back unchanged.
RECURSIVE refillFrom(_, _, _, _, _)
refillFrom(b, col, row, supply, n) ==
  IF col >= width THEN [board |-> b, used |-> n]
  ELSE IF row < 0 THEN refillFrom(b, col + 1, height - 1, supply, n)
  ELSE IF b[row][col] = Empty
  THEN LET above == rowAbove(b, row - 1, col)
       IN IF above >= 0
          THEN refillFrom([b EXCEPT ![row][col] = b[above][col], ![above][col] = Empty],
                          col, row - 1, supply, n)
          ELSE refillFrom([b EXCEPT ![row][col] = supply[n + 1]], col, row - 1, supply, n + 1)
  ELSE refillFrom(b, col, row - 1, supply, n)

\* Number of generator.next() calls one refill of b makes
refillCalls(b) ==
  refillFrom(b, 0, height - 1, [i \in 1..(width * height) |-> "A"], 0).used

\* doMatch clearing only the first two positions of each match
RECURSIVE clear_two(_, _)
clear_two(b, ms) ==
  IF ms = <<>> THEN b
  ELSE LET ps == Head(ms).positions
       IN clear_two(store(store(b, ps[1].row, ps[1].col, Empty),
                          ps[2].row, ps[2].col, Empty), Tail(ms))

\* doMatch's forEach: the three positions of every recorded match become undefined
RECURSIVE clear(_, _)
clear(b, ms) ==
  IF ms = <<>> THEN b
  ELSE LET ps == Head(ms).positions
       IN clear(store(store(store(b, ps[1].row, ps[1].col, Empty),
                                  ps[2].row, ps[2].col, Empty),
                            ps[3].row, ps[3].col, Empty), Tail(ms))

\* findMatches returning columnMatch alone
found_columnOnly(cm, rm) == cm

\* The value findMatches returns (line 260)
found(cm, rm) == cm \/ rm

\* forEach walking the listeners from the last registered to the first
callee_reversed(ls, k) == ls[Len(ls) - k]

\* listeners.forEach (line 311): the callback called after k others
callee(ls, k) == ls[k + 1]

\* ------------------------------------------------------------- events
NoEvent == [kind |-> "none"]
MatchEvent(m) == [kind |-> "Match", match |-> m]
RefillEvent == [kind |-> "Refill"]

\* -------------------------------------------------------------- state
Init ==
  /\ generator \in Generators
  /\ \E s \in Sizes(IF generator.kind = "any" THEN MaxFreeCells ELSE MaxCells) :
        width = s[1] /\ height = s[2]
  /\ board = <<>>
  /\ listeners = <<>>
  /\ matches = <<>>
  /\ pc = "new"
  /\ op = "new"
  /\ ret = FALSE
  /\ ev = NoEvent
  /\ li = 0
  /\ columnMatch = FALSE
  /\ rowMatch = FALSE
  /\ log = <<>>
  /\ drawn = <<>>
  /\ moves = 0
  /\ outer = <<>>

\* part_000 create: the board record after its fill loops; d is what the width * height
\* calls of generator.next() returned and left of the generator
create(d, w, h) ==
  [data |-> [row \in 0..(h - 1) |-> [col \in 0..(w - 1) |-> d.values[row * w + col + 1]]],
   generator |-> d.gen,
   matches |-> <<>>,
   width |-> w,
   height |-> h]

\* The constructor with its loops exchanged: columns outside, rows inside
Construct_columnMajor ==
  /\ pc = "new"
  /\ \E d \in Draws(generator, width * height) :
        /\ board' = [r \in 0..(height - 1) |->
                       [c \in 0..(width - 1) |-> d.values[c * height + r + 1]]]
        /\ generator' = d.gen
        /\ drawn' = d.values
  /\ matches' = <<>>
  /\ pc' = "scanColumns"
  /\ op' = "constructor"
  /\ UNCHANGED <<width, height, listeners, ret, ev, li, columnMatch, rowMatch, log, moves, outer>>

\* Board.constructor, lines 68-80: the fields, then the row-major initial fill.
\* No listener can be registered before the constructor returns.
Construct ==
  /\ pc = "new"
  /\ \E d \in Draws(generator, width * height) :
        /\ board' = [r \in 0..(height - 1) |->
                       [c \in 0..(width - 1) |-> d.values[r * width + c + 1]]]
        /\ generator' = d.gen
        /\ drawn' = d.values
  /\ matches' = <<>>
  /\ pc' = "scanColumns"
  /\ op' = "constructor"
  /\ UNCHANGED <<width, height, listeners, ret, ev, li, columnMatch, rowMatch, log, moves, outer>>

\* Board.addListener; the callback registered k-th is called k
AddListener ==
  /\ pc = "idle"
  /\ Len(listeners) < MaxListeners
  /\ listeners' = Append(listeners, Len(listeners) + 1)
  /\ UNCHANGED <<width, height, generator, board, matches, pc, op, ret, ev, li,
                 columnMatch, rowMatch, log, drawn, moves, outer>>

\* A call of Board.canMove by the user of the board
CanMove(positionA, positionB) ==
  /\ pc = "idle"
  /\ LET cm == canMove(board, positionA, positionB)
     IN /\ board' = cm.board
        /\ ret' = cm.result
        /\ pc' = IF cm.error THEN "error" ELSE "returned"
  /\ op' = "canMove"
  /\ UNCHANGED <<width, height, generator, listeners, matches, ev, li, columnMatch,
                 rowMatch, log, drawn, moves, outer>>

\* Board.move up to the resolve loop: the canMove test and, when it passes, the swap
Move(first, second) ==
  /\ pc = "idle"
  /\ moves < MaxMoves
  /\ LET cm == canMove(board, first, second)
     IN /\ ret' = cm.result
        /\ moves' = IF cm.result THEN moves + 1 ELSE moves
        /\ IF cm.error \/ (cm.result /\ changeThrows(cm.board, first, second))
           THEN board' = cm.board /\ pc' = "error"
           ELSE IF cm.result
           THEN board' = change(cm.board, first, second) /\ pc' = "scanColumns"
           ELSE board' = cm.board /\ pc' = "returned"
  /\ op' = "move"
  /\ UNCHANGED <<width, height, generator, listeners, matches, ev, li, columnMatch,
                 rowMatch, log, drawn, outer>>

\* Board.findMatches, first loop nest (lines 241-250), up to the alert inside
\* findColumnMatch (line 277)
FindColumnMatches ==
  /\ pc = "scanColumns"
  /\ LET hits == columnHits(board)
     IN /\ columnMatch' = (hits # {})
        /\ IF hits # {}
           THEN /\ ev' = MatchEvent(columnMatchAt(board, First(hits).row, First(hits).col))
                /\ pc' = "alertColumn"
           ELSE /\ ev' = NoEvent
                /\ pc' = "scanRows"
  /\ rowMatch' = FALSE
  /\ li' = 0
  /\ drawn' = <<>>
  /\ UNCHANGED <<width, height, generator, board, listeners, matches, op, ret, log, moves, outer>>

\* Board.alert: one iteration of listeners.forEach, the call of the next listener
Deliver ==
  /\ pc \in {"alertColumn", "alertRow", "alertRefill"}
  /\ li < Len(listeners)
  /\ Len(log) < MaxLog
  /\ log' = Append(log, <<callee(listeners, li), ev>>)
  /\ li' = li + 1
  /\ UNCHANGED <<width, height, generator, board, listeners, matches, pc, op, ret, ev,
                 columnMatch, rowMatch, drawn, moves, outer>>

\* findColumnMatch after its alert returned: matches.push (line 278)
PushColumnMatch ==
  /\ pc = "alertColumn"
  /\ li = Len(listeners)
  /\ matches' = Append(matches, ev.match)
  /\ ev' = NoEvent
  /\ pc' = "scanRows"
  /\ UNCHANGED <<width, height, generator, board, listeners, op, ret, li,
                 columnMatch, rowMatch, log, drawn, moves, outer>>

\* Board.findMatches, second loop nest (lines 252-258), up to the alert inside
\* findRowMatch (line 300)
FindRowMatches ==
  /\ pc = "scanRows"
  /\ LET hits == rowHits(board)
     IN /\ rowMatch' = (hits # {})
        /\ IF hits # {}
           THEN /\ ev' = MatchEvent(rowMatchAt(board, First(hits).row, First(hits).col))
                /\ pc' = "alertRow"
           ELSE /\ ev' = NoEvent
                /\ pc' = "scanned"
  /\ li' = 0
  /\ UNCHANGED <<width, height, generator, board, listeners, matches, op, ret,
                 columnMatch, log, drawn, moves, outer>>

\* findRowMatch after its alert returned: matches.push (line 301)
PushRowMatch ==
  /\ pc = "alertRow"
  /\ li = Len(listeners)
  /\ matches' = Append(matches, ev.match)
  /\ ev' = NoEvent
  /\ pc' = "scanned"
  /\ UNCHANGED <<width, height, generator, board, listeners, op, ret, li,
                 columnMatch, rowMatch, log, drawn, moves, outer>>

\* findMatches returned true: Board.doMatch up to its alert (lines 223-235)
DoMatch ==
  /\ pc = "scanned"
  /\ found(columnMatch, rowMatch)
  /\ board' = clear(board, matches)
  /\ matches' = <<>>
  /\ ev' = RefillEvent
  /\ li' = 0
  /\ pc' = "alertRefill"
  /\ UNCHANGED <<width, height, generator, listeners, op, ret, columnMatch, rowMatch,
                 log, drawn, moves, outer>>

\* Board.refillBoard after doMatch's alert returned (lines 316-339); control then
\* enters the loop of line 341, which scans again.
RefillBoard ==
  /\ pc = "alertRefill"
  /\ li = Len(listeners)
  /\ \E d \in Draws(generator, refillCalls(board)) :
        /\ board' = refillFrom(board, 0, height - 1, d.values, 0).board
        /\ generator' = d.gen
        /\ drawn' = d.values
  /\ ev' = NoEvent
  /\ pc' = "scanColumns"
  /\ UNCHANGED <<width, height, listeners, matches, op, ret, li, columnMatch, rowMatch, log, moves, outer>>

\* findMatches returned false: the loop ends.  The loops that enclose it (line 341
\* inside refillBoard, then lines 82 and 206) each scan the unchanged grid once
\* more, find nothing, emit nothing and end too, so the operation returns.
Return ==
  /\ pc = "scanned"
  /\ ~found(columnMatch, rowMatch)
  /\ pc' = "returned"
  /\ UNCHANGED <<width, height, generator, board, listeners, matches, op, ret, ev, li,
                 columnMatch, rowMatch, log, drawn, moves, outer>>

\* The caller, holding the result of the operation that returned, goes on; what it
\* observed of that operation (result, listener calls, generator calls) is dropped.
Continue ==
  /\ pc = "returned"
  /\ pc' = "idle"
  /\ op' = "none"
  /\ ret' = FALSE
  /\ log' = <<>>
  /\ drawn' = <<>>
  /\ li' = 0
  /\ columnMatch' = FALSE
  /\ rowMatch' = FALSE
  /\ UNCHANGED <<width, height, generator, board, listeners, matches, ev, moves, outer>>

Next ==
  \/ Construct
  \/ AddListener
  \/ \E a \in AnyPos, b \in AnyPos : CanMove(a, b)
  \/ \E a \in AnyPos, b \in AnyPos : Move(a, b)
  \/ FindColumnMatches
  \/ Deliver
  \/ PushColumnMatch
  \/ FindRowMatches
  \/ PushRowMatch
  \/ DoMatch
  \/ RefillBoard
  \/ Return
  \/ Continue

Spec == Init /\ [][Next]_vars

\* The steps of a running operation.  The engine is synchronous and single-threaded
\* (no await, no timer): once the constructor or move is called, each statement
\* runs as soon as the one before it has finished.
Running ==
  \/ Construct
  \/ FindColumnMatches
  \/ PushColumnMatch
  \/ FindRowMatches
  \/ PushRowMatch
  \/ DoMatch
  \/ RefillBoard
  \/ Return

\* The board driven by a SequenceGenerator, with no listener registered
InitSeq == Init /\ generator.kind = "seq"

NextSeq ==
  \/ Running
  \/ \E a \in AnyPos, b \in AnyPos : Move(a, b)
  \/ Continue

TermSpec == InitSeq /\ [][NextSeq]_vars /\ WF_vars(Running)

\* refillBoard as a function of the grid: every grid of a size within the bound,
\* with any cells undefined, is handed to refillBoard with any of the generators.
GridsWithHoles(w, h) == [0..(h - 1) -> [0..(w - 1) -> Values \cup {Empty}]]

InitRefill ==
  /\ generator \in Generators
  /\ \E s \in Sizes(MaxRefillCells) : width = s[1] /\ height = s[2]
  /\ board \in GridsWithHoles(width, height)
  /\ listeners = <<>>
  /\ matches = <<>>
  /\ pc = "alertRefill"
  /\ op = "refillBoard"
  /\ ret = FALSE
  /\ ev = RefillEvent
  /\ li = 0
  /\ columnMatch = FALSE
  /\ rowMatch = FALSE
  /\ log = <<>>
  /\ drawn = <<>>
  /\ moves = 0
  /\ outer = <<>>

RefillSpec == InitRefill /\ [][RefillBoard]_vars

\* alert() with the failures collected and raised after the last listener has run
Raise_afterAll ==
  /\ pc \in {"alertColumn", "alertRow", "alertRefill"}
  /\ li < Len(listeners)
  /\ Len(log) + (Len(listeners) - li) <= MaxLog
  /\ log' = log \o [k \in 1..(Len(listeners) - li) |-> <<callee(listeners, li + k - 1), ev>>]
  /\ pc' = "raised"
  /\ UNCHANGED <<width, height, generator, board, listeners, matches, op, ret, ev, li,
                 columnMatch, rowMatch, drawn, moves, outer>>

\* Board.alert when the listener it calls raises: forEach, alert, the scan or doMatch,
\* the resolve loop and move have no try / catch, so the exception unwinds them all
\* and reaches the caller; the board keeps what it held at that moment.
Raise ==
  /\ pc \in {"alertColumn", "alertRow", "alertRefill"}
  /\ li < Len(listeners)
  /\ Len(log) < MaxLog
  /\ log' = Append(log, <<callee(listeners, li), ev>>)
  /\ pc' = "raised"
  /\ UNCHANGED <<width, height, generator, board, listeners, matches, op, ret, ev, li,
                 columnMatch, rowMatch, drawn, moves, outer>>

\* The board with listeners that may raise
FailSpec == Init /\ [][Next \/ Raise]_vars

\* A listener that calls board.move(first, second) from inside its callback.  The
\* call runs on the same Board object, at once and to its end, while the operation
\* that emitted the event waits inside alert(): its place (pc, the event, the next
\* listener, findMatches' locals) is kept in outer; board, matches and generator
\* are fields of the object and are shared.  A move that canMove refuses changes
\* nothing, and the callback returns as any other.  Listeners called by the nested
\* move do not call move again.
Reenter(first, second) ==
  /\ pc \in {"alertColumn", "alertRow", "alertRefill"}
  /\ li < Len(listeners)
  /\ Len(log) < MaxLog
  /\ outer = <<>>
  /\ log' = Append(log, <<callee(listeners, li), ev>>)
  /\ LET cm == canMove(board, first, second)
     IN IF cm.result
        THEN /\ outer' = <<[pc |-> pc, ev |-> ev, li |-> li + 1,
                            columnMatch |-> columnMatch, rowMatch |-> rowMatch]>>
             /\ board' = change(cm.board, first, second)
             /\ pc' = "scanColumns"
             /\ li' = li
        ELSE /\ outer' = outer
             /\ board' = cm.board
             /\ pc' = pc
             /\ li' = li + 1
  /\ UNCHANGED <<width, height, generator, listeners, matches, op, ret, ev,
                 columnMatch, rowMatch, drawn, moves>>

\* The nested move returns (its last scan found nothing): the callback returns and
\* alert() of the waiting operation goes on with the next listener
Resume ==
  /\ pc = "scanned"
  /\ ~found(columnMatch, rowMatch)
  /\ outer # <<>>
  /\ pc' = outer[1].pc
  /\ ev' = outer[1].ev
  /\ li' = outer[1].li
  /\ columnMatch' = outer[1].columnMatch
  /\ rowMatch' = outer[1].rowMatch
  /\ outer' = <<>>
  /\ UNCHANGED <<width, height, generator, board, listeners, matches, op, ret, log,
                 drawn, moves>>

\* The board driven by a SequenceGenerator, with listeners that may call move
NextReentrant ==
  \/ Construct
  \/ AddListener
  \/ \E a \in AnyPos, b \in AnyPos : Move(a, b)
  \/ FindColumnMatches
  \/ Deliver
  \/ \E a \in Cells, b \in Cells : Reenter(a, b)
  \/ PushColumnMatch
  \/ FindRowMatches
  \/ PushRowMatch
  \/ DoMatch
  \/ RefillBoard
  \/ (outer = <<>> /\ Return)
  \/ Resume
  \/ Continue

ReentrantSpec == InitSeq /\ [][NextReentrant]_vars

\* ========================================================== properties
\* A grid of the board's dimensions
IsGrid(b) == /\ DOMAIN b = 0..(height - 1)
             /\ \A r \in DOMAIN b : DOMAIN b[r] = 0..(width - 1)

\* Three equal cells side by side in a row, or one above the other in a column
HasRun(b) ==
  \/ \E r \in 0..(height - 1), c \in 0..(width - 3) :
        b[r][c] = b[r][c + 1] /\ b[r][c + 1] = b[r][c + 2]
  \/ \E r \in 0..(height - 3), c \in 0..(width - 1) :
        b[r][c] = b[r + 1][c] /\ b[r + 1][c] = b[r + 2][c]

\* The constructor or move has returned, or the board awaits its next call
AtRest == pc \in {"returned", "idle"}

\* C1: whenever the constructor or move has returned, the grid holds no run of three
\* equal pieces, in no row and in no column.
C1_Quiescence == AtRest => IsGrid(board) /\ ~HasRun(board)

\* C1 witness: a legal move has returned after a cascade its listener saw
C1_Witness == pc = "returned" /\ op = "move" /\ ret = TRUE /\ Len(log) >= 2

\* The constructor has been called, or an operation is between call and return
InCall == pc \notin {"idle", "returned", "error"}

\* A SequenceGenerator whose sequence repeats one value
ConstantGenerator ==
  generator.kind = "seq" /\ \A i \in 1..Len(generator.sequence) :
                               generator.sequence[i] = generator.sequence[1]

\* C2 as claimed: with a generator that yields a repeating sequence, on every board
\* size, the scan -> resolve -> refill loop started by the constructor or by a legal
\* move reaches a scan that finds no match, and the operation returns.
C2_Termination == InCall ~> (pc = "returned")

\* C2 amended: the loop need not end.  With a generator that always yields the same
\* value, on a board with width >= 3 or height >= 3 the constructor never returns
\* (every refill restores a run); on a board with width < 3 and height < 3 every
\* operation returns.
C2_Amended ==
  /\ []((ConstantGenerator /\ (width >= 3 \/ height >= 3)) => ~AtRest)
  /\ ((width < 3 /\ height < 3 /\ InCall) ~> (pc = "returned"))

\* C2 witness: a single-valued generator has refilled part of a board at least 3
\* wide, and the refilled grid holds a run again
C2_Witness ==
  /\ ConstantGenerator /\ width >= 3
  /\ pc = "scanColumns" /\ drawn # <<>> /\ Len(drawn) < width * height
  /\ HasRun(board)

\* The pairs the board refuses
IllegalPairs(b) ==
  {ab \in AnyPos \X AnyPos : ~canMove(b, ab[1], ab[2]).result}

\* C3: a move of a pair for which canMove is false changes no cell, delivers no event
\* to any listener, asks the generator for nothing, and returns without an error.
C3_IllegalMoveNoOp ==
  [][(pc = "idle" /\ op' = "move" /\ ret' = FALSE) =>
       /\ board' = board
       /\ log' = log /\ li' = li /\ ev' = ev
       /\ generator' = generator /\ drawn' = drawn
       /\ matches' = matches
       /\ pc' = "returned"]_vars

\* C3 witness: move has refused a pair of neighbouring cells in the grid that hold
\* different pieces (the pair canMove swaps and swaps back); every refused pair
\* leads to this same state
C3_Witness ==
  /\ pc = "returned" /\ op = "move" /\ ret = FALSE
  /\ \E ab \in IllegalPairs(board) :
        /\ ab[1] \in Cells /\ ab[2] \in Cells
        /\ ab[1].row = ab[2].row /\ ab[1].col + 1 = ab[2].col
        /\ piece(board, ab[1]) # piece(board, ab[2])
  /\ \E ab \in IllegalPairs(board) : ab[1] \notin Cells

\* C4: canMove leaves the grid cell for cell as it found it, whatever the two positions
\* and whatever the result, because the swap it tries is undone (exchanging the same
\* two cells twice restores the grid); it delivers no event and does not call the
\* generator.
C4_CanMoveNoEffect ==
  [][/\ (pc = "idle" /\ op' = "canMove") =>
          /\ board' = board
          /\ log' = log /\ li' = li /\ ev' = ev
          /\ generator' = generator /\ drawn' = drawn
          /\ matches' = matches /\ listeners' = listeners
          /\ pc' = "returned"
     /\ (op = "canMove") =>
          \A a \in Cells, b \in Cells : change(change(board, a, b), a, b) = board]_vars

\* C4 witness: canMove has returned true, so it has swapped two cells and swapped
\* them back
C4_Witness ==
  /\ pc = "returned" /\ op = "canMove" /\ ret = TRUE
  /\ \E a \in Cells, b \in Cells : change(board, a, b) # board

\* A grid on which canMove may be asked: complete, whatever runs it holds
Filled(b) == IsGrid(b) /\ \A p \in Cells : b[p.row][p.col] # Empty

\* C5: canMove(a, b) and canMove(b, a) return the same boolean, for every pair of
\* positions, on the Board and on the functional board alike.
C5_Symmetry ==
  (pc \in {"idle", "scanColumns"} /\ Filled(board)) =>
     \A a \in AnyPos, b \in AnyPos :
        /\ canMove(board, a, b).result = canMove(board, b, a).result
        /\ canMoveF(board, a, b).result = canMoveF(board, b, a).result

\* C5 witness: a board at rest with a legal swap whose only run is found by the
\* check at the second position of one order and the first position of the other
C5_Witness ==
  /\ pc = "idle"
  /\ \E a \in Cells, b \in Cells :
        LET swapped == change(board, a, b)
        IN /\ canMove(board, a, b).result /\ canMove(board, b, a).result
           /\ canMoveF(board, a, b).result
           /\ a.row = b.row
           /\ evaluateRowMatch(swapped, b, piece(board, a))
           /\ ~evaluateRowMatch(swapped, a, piece(board, b))
           /\ ~evaluateColumnMatch(swapped, a, piece(board, b))
           /\ ~evaluateColumnMatch(swapped, b, piece(board, a))

\* The grid with the pieces of cells a and b exchanged
Exchanged(b, p, q) ==
  [r \in 0..(height - 1) |-> [c \in 0..(width - 1) |->
     IF Pos(r, c) = p THEN b[q.row][q.col]
     ELSE IF Pos(r, c) = q THEN b[p.row][p.col] ELSE b[r][c]]]

\* A swap that produces a match: two cells of the grid in one row or one column, with
\* different pieces, whose exchange leaves a run of three somewhere on the grid
LegalSwap(b, p, q) ==
  /\ p \in Cells /\ q \in Cells
  /\ b[p.row][p.col] # Empty /\ b[q.row][q.col] # Empty
  /\ b[p.row][p.col] # b[q.row][q.col]
  /\ (p.row = q.row \/ p.col = q.col)
  /\ HasRun(Exchanged(b, p, q))

\* C6: on a board at rest canMove(a, b) is true exactly when a and b are cells of the
\* grid in one row or column, with different pieces, whose exchange produces a run of
\* three; so the swap move applies always leaves a run on the grid.
C6_CanMoveExact ==
  /\ pc = "idle" =>
        \A a \in AnyPos, b \in AnyPos : canMove(board, a, b).result = LegalSwap(board, a, b)
  /\ (pc = "scanColumns" /\ op = "move" /\ drawn = <<>>) => HasRun(board)

\* C6 witness: move has just applied a swap, and the swapped grid holds a run
C6_Witness ==
  /\ pc = "scanColumns" /\ op = "move" /\ drawn = <<>> /\ ret = TRUE /\ moves = 1
  /\ \E r \in 0..(height - 1), c \in 2..(width - 1) :
        board[r][c - 2] = board[r][c] /\ board[r][c - 1] = board[r][c]

\* Positions up to two steps outside the grid, and the grid itself
Probe == {Pos(r, c) : r \in (-2)..(height + 1), c \in (-2)..(width + 1)}

\* C7: for a position outside [0, height) x [0, width), piece returns undefined
\* without raising and without indexing the grid array (the bounds test keeps it from
\* the array); for a position inside, it returns the value stored at that cell.  The
\* same holds of the functional board's piece.
C7_PieceBounds ==
  pc # "new" =>
    \A p \in Probe :
       IF p \in Cells
       THEN /\ inBounds(p)
            /\ p.row \in DOMAIN board /\ p.col \in DOMAIN board[p.row]
            /\ piece(board, p) = board[p.row][p.col]
            /\ pieceF(board, p) = board[p.row][p.col]
       ELSE /\ ~inBounds(p)
            /\ piece(board, p) = Empty
            /\ pieceF(board, p) = Empty

\* C7 witness: piece asked one step beyond each edge, and at the last cell, of a
\* board that a move has changed
C7_Witness ==
  /\ pc = "returned" /\ op = "move" /\ ret = TRUE
  /\ piece(board, Pos(height, 0)) = Empty /\ piece(board, Pos(0, width)) = Empty
  /\ piece(board, Pos(-1, 0)) = Empty /\ piece(board, Pos(0, -1)) = Empty
  /\ piece(board, Pos(height - 1, width - 1)) \in Values

\* A cell of the grid holds undefined
HasEmpty(b) == \E p \in Cells : b[p.row][p.col] = Empty

\* C8: from the initial fill on the grid is height rows of width cells; whenever the
\* constructor or move has returned every cell holds a piece value; a cell is
\* undefined only between doMatch's clear and the refill of the same pass.
C8_GridComplete ==
  /\ pc # "new" => IsGrid(board)
  /\ AtRest => \A p \in Cells : board[p.row][p.col] \in Values
  /\ (pc # "new" /\ HasEmpty(board)) => pc = "alertRefill"

\* C8 witness: doMatch has cleared a vertical match, so the top row is undefined and
\* refillBoard is about to fill it from the generator
C8_Witness ==
  /\ pc = "alertRefill" /\ op = "move" /\ height >= 3
  /\ \E c \in 0..(width - 1) : \A r \in 0..2 : board[r][c] = Empty

\* alert() is running
Alerting == pc \in {"alertColumn", "alertRow", "alertRefill"}

\* The number of listener calls made for events whose delivery is complete
Delivered == Len(log) - (IF Alerting THEN li ELSE 0)

\* The log is a sequence of rounds, one per event: in each round every registered
\* listener is called once, in registration order, with that event; successive
\* rounds carry different events; the round of the event being delivered has
\* reached listener li.
LogShape ==
  LET n == Len(listeners)
  IN /\ li \in 0..n
     /\ n = 0 => log = <<>>
     /\ n > 0 =>
          /\ Delivered >= 0 /\ Delivered % n = 0
          /\ \A k \in 1..Len(log) :
                /\ log[k][1] = listeners[((k - 1) % n) + 1]
                /\ log[k][2] = log[k - ((k - 1) % n)][2]
                /\ k > n => (((k - 1) % n = 0) => log[k][2] # log[k - n][2])
          /\ \A k \in (Delivered + 1)..Len(log) : log[k][2] = ev
          /\ (Alerting /\ li = 0 /\ Len(log) > 0) => log[Len(log)][2] # ev

\* C9: every event is delivered to every registered listener exactly once, in
\* registration order, and until the last listener has been called for it the engine
\* does nothing else: no other event, no change of the grid.
C9_DeliveryOrder ==
  [][/\ LogShape /\ LogShape'
     /\ (Alerting /\ li < Len(listeners)) =>
          /\ log' = Append(log, <<listeners[li + 1], ev>>)
          /\ li' = li + 1
          /\ UNCHANGED <<board, ev, pc, generator, matches, listeners>>
     /\ log' # log => (Alerting /\ Len(log') = Len(log) + 1) \/ log' = <<>>]_vars

\* C9 witness: two listeners have each been called for two events of one move
C9_Witness ==
  /\ Len(listeners) = 2 /\ Len(log) = 4 /\ op = "move"
  /\ log[1][1] = 1 /\ log[2][1] = 2 /\ log[3][1] = 1 /\ log[4][1] = 2
  /\ log[1][2].kind = "Match" /\ log[3][2].kind = "Refill"

\* The kinds of the events the first registered listener has received during the
\* running operation, in order
RECURSIVE kindsOf(_)
kindsOf(l) == IF l = <<>> THEN <<>>
              ELSE IF Head(l)[1] = 1 THEN <<Head(l)[2].kind>> \o kindsOf(Tail(l))
              ELSE kindsOf(Tail(l))

trace == kindsOf(log)

\* Runs along a row, runs along a column
HasRowRun(b) ==
  \E r \in 0..(height - 1), c \in 0..(width - 3) :
     b[r][c] = b[r][c + 1] /\ b[r][c + 1] = b[r][c + 2]

HasColumnRun(b) ==
  \E r \in 0..(height - 3), c \in 0..(width - 1) :
     b[r][c] = b[r + 1][c] /\ b[r + 1][c] = b[r + 2][c]

Count(t, kind) == Cardinality({k \in 1..Len(t) : t[k] = kind})

\* A prefix of a sequence of passes, each one or two Match and then one Refill
Passes(t) ==
  /\ \A k \in 1..Len(t) : t[k] \in {"Match", "Refill"}
  /\ \A k \in 1..Len(t) : t[k] = "Refill" => (k > 1 /\ t[k - 1] = "Match")
  /\ \A k \in 3..Len(t) : ~(t[k] = "Match" /\ t[k - 1] = "Match" /\ t[k - 2] = "Match")

\* The listener has received every event emitted so far (the log is not cut off)
Heard == Len(listeners) >= 1 /\ (Alerting => li >= 1)

\* C10: the events of one move form passes of one or more Match followed by one
\* Refill; no Refill comes without a Match since the previous Refill; nothing follows
\* the last Refill; a legal move has at least one pass; the first pass of a move
\* emits one Match for a run along a row and one for a run along a column, hence
\* exactly one when the swap makes one run; and a scan of a grid without a run emits
\* nothing and ends the move, hence one Match and one Refill in all when the refill
\* makes no new run.
C10_TraceShape ==
  [][/\ Passes(trace) /\ Passes(trace')
     /\ (pc' = "returned" /\ op' = "move" /\ ret' = TRUE /\ Len(listeners) >= 1) =>
          (trace' # <<>> /\ trace'[Len(trace')] = "Refill")
     /\ (pc' = "scanned" /\ op' = "move" /\ Len(listeners) >= 1
           /\ Count(trace', "Refill") = 0) =>
          Count(trace', "Match") = (IF HasRowRun(board') THEN 1 ELSE 0)
                                     + (IF HasColumnRun(board') THEN 1 ELSE 0)
     /\ (pc = "scanned" /\ found(columnMatch, rowMatch) /\ Heard) =>
          (trace # <<>> /\ trace[Len(trace)] = "Match" /\ ev' = RefillEvent)
     /\ (pc \in {"scanColumns", "scanRows", "scanned"} /\ ~HasRun(board)) =>
          (log' = log /\ board' = board /\ pc' \in {"scanRows", "scanned", "returned"})]_vars

\* C10 witness: a move whose swap made one run and whose refill made none has
\* returned, and its listener has received one Match and then one Refill
C10_Witness ==
  /\ pc = "returned" /\ op = "move" /\ ret = TRUE /\ Len(listeners) = 1
  /\ trace = <<"Match", "Refill">>

\* Three cells of row r from column i on, all in the grid and all equal to t
RowWindow(b, r, i, t) ==
  /\ r \in 0..(height - 1) /\ i >= 0 /\ i + 2 < width
  /\ b[r][i] = t /\ b[r][i + 1] = t /\ b[r][i + 2] = t

\* Three cells of column c from row i on, all in the grid and all equal to t
ColumnWindow(b, c, i, t) ==
  /\ c \in 0..(width - 1) /\ i >= 0 /\ i + 2 < height
  /\ b[i][c] = t /\ b[i + 1][c] = t /\ b[i + 2][c] = t

\* C11: on every grid, for every position and target value, the lookahead checks are
\* true exactly when a window of three cells equal to the target contains the
\* position, that is, starts at index pos - 2, pos - 1 or pos; a window of the target
\* value that does not contain the position does not make them true.
C11_WindowsContainPosition ==
  (pc # "new" /\ Filled(board)) =>
    \A p \in Cells, t \in Values :
       LET along == \E i \in (p.col - 2)..(p.col) : RowWindow(board, p.row, i, t)
           down == \E i \in (p.row - 2)..(p.row) : ColumnWindow(board, p.col, i, t)
       IN /\ evaluateColumnMatch(board, p, t) = along
          /\ checkColumnMatch(board, p, t) = along
          /\ evaluateRowMatch(board, p, t) = down
          /\ checkRowMatch(board, p, t) = down

\* Cell p comes before cell q in row-major order
Before(p, q) == p.row < q.row \/ (p.row = q.row /\ p.col < q.col)

\* The cells where an equal window of three starts, along the row and down the column
RowStarts(b) == {p \in Cells : RowWindow(b, p.row, p.col, b[p.row][p.col])}
ColumnStarts(b) == {p \in Cells : ColumnWindow(b, p.col, p.row, b[p.row][p.col])}

\* The Match records a completed scan of b must have made, in order: the first
\* row window if there is one, then the first column window if there is one
Expected(b) ==
  (IF RowStarts(b) = {} THEN <<>>
   ELSE LET p == CHOOSE x \in RowStarts(b) : \A y \in RowStarts(b) : x = y \/ Before(x, y)
        IN <<[matched |-> b[p.row][p.col],
              positions |-> <<p, Pos(p.row, p.col + 1), Pos(p.row, p.col + 2)>>]>>)
  \o
  (IF ColumnStarts(b) = {} THEN <<>>
   ELSE LET p == CHOOSE x \in ColumnStarts(b) : \A y \in ColumnStarts(b) : x = y \/ Before(x, y)
        IN <<[matched |-> b[p.row][p.col],
              positions |-> <<p, Pos(p.row + 1, p.col), Pos(p.row + 2, p.col)>>]>>)

\* The events the first registered listener has received, in order
RECURSIVE eventsOf(_)
eventsOf(l) == IF l = <<>> THEN <<>>
               ELSE IF Head(l)[1] = 1 THEN <<Head(l)[2]>> \o eventsOf(Tail(l))
               ELSE eventsOf(Tail(l))

\* The last k elements of a sequence
Last(q, k) == SubSeq(q, Len(q) - k + 1, Len(q))

\* C12: a completed scan has recorded at most one match along a row and at most one
\* down a column: the first equal window of each direction in row-major order of its
\* first cell, the one along a row first; the Match events were emitted in that
\* order; and the scan reports no match only when the grid holds no equal window.
C12_EarlyExit ==
  pc = "scanned" =>
    /\ matches = Expected(board)
    /\ Len(matches) <= 2
    /\ found(columnMatch, rowMatch) = HasRun(board)
    /\ columnMatch = (RowStarts(board) # {})
    /\ rowMatch = (ColumnStarts(board) # {})
    /\ Len(listeners) >= 1 =>
         /\ Len(eventsOf(log)) >= Len(matches)
         /\ Last(eventsOf(log), Len(matches)) = [k \in 1..Len(matches) |-> MatchEvent(matches[k])]

\* C12 witness: a scan of a grid with two equal windows along one row (a run of four)
\* and a run down a column has completed, heard by a listener
C12_Witness ==
  /\ pc = "scanned" /\ Len(listeners) >= 1
  /\ Cardinality(RowStarts(board)) >= 2
  /\ ColumnStarts(board) # {}
  /\ Len(matches) = 2

\* The cells named by the matches of a list
MatchedCells(ms) == {ms[k].positions[j] : k \in 1..Len(ms), j \in 1..3}

\* C13: when the Refill event is delivered, exactly the cells of the matches recorded
\* in the pass are undefined, every other cell holds what it held when the scan
\* ended, the match list is already empty, and the generator has not been asked for
\* a value of this pass; nothing of this changes while the listeners are called.
C13_StateAtRefill ==
  [][/\ (pc = "scanned" /\ pc' = "alertRefill") =>
          /\ ev' = RefillEvent /\ li' = 0
          /\ matches # <<>>
          /\ \A p \in Cells :
                board'[p.row][p.col] =
                  IF p \in MatchedCells(matches) THEN Empty ELSE board[p.row][p.col]
          /\ \A p \in Cells : board[p.row][p.col] # Empty
          /\ IsGrid(board')
          /\ matches' = <<>>
          /\ generator' = generator /\ drawn' = drawn
     /\ (pc = "alertRefill" /\ pc' = "alertRefill") =>
          /\ board' = board /\ matches' = matches /\ generator' = generator
          /\ drawn' = drawn /\ ev' = ev
          /\ log' = Append(log, <<listeners[li + 1], RefillEvent>>)
     /\ (pc = "alertRefill" /\ pc' # "alertRefill") =>
          /\ li = Len(listeners)
          /\ Len(drawn') = Cardinality({p \in Cells : board[p.row][p.col] = Empty})]_vars

\* C13 witness: a listener has been handed the Refill event of a pass that recorded
\* two matches; the cells of both are undefined and the match list is empty
C13_Witness ==
  /\ pc = "alertRefill" /\ li >= 1 /\ matches = <<>>
  /\ log[Len(log)][2] = RefillEvent
  /\ Cardinality({p \in Cells : board[p.row][p.col] = Empty}) >= 5
  /\ \E p \in Cells : board[p.row][p.col] # Empty

\* Three distinct cells of the grid, side by side in one row or one above the other
\* in one column, in order
Contiguous(ps) ==
  /\ Len(ps) = 3
  /\ \A j \in 1..3 : ps[j] \in Cells
  /\ \/ ps[2] = Pos(ps[1].row, ps[1].col + 1) /\ ps[3] = Pos(ps[1].row, ps[1].col + 2)
     \/ ps[2] = Pos(ps[1].row + 1, ps[1].col) /\ ps[3] = Pos(ps[1].row + 2, ps[1].col)

\* A Match event that is true of grid b
ValidMatch(e, b) ==
  /\ e.kind = "Match"
  /\ Contiguous(e.match.positions)
  /\ e.match.matched \in Values
  /\ \A j \in 1..3 :
        b[e.match.positions[j].row][e.match.positions[j].col] = e.match.matched

\* C14: every Match event, while it is delivered, names three distinct cells of the
\* grid contiguous in one row or one column, all holding the event's matched value,
\* which is a piece value; and the grid has no undefined cell then.
C14_MatchValid ==
  /\ pc \in {"alertColumn", "alertRow"} =>
        /\ ValidMatch(ev, board)
        /\ ~HasEmpty(board)
        /\ li >= 1 => log[Len(log)] = <<listeners[li], ev>>
  /\ \A k \in 1..Len(log) : log[k][2].kind = "Match" => Contiguous(log[k][2].match.positions)
  /\ \A k \in 1..Len(matches) : Contiguous(matches[k].positions)

\* C14 witness: a listener is handed a Match event for a run down a column, after one
\* for a run along a row in the same pass
C14_Witness ==
  /\ pc = "alertRow" /\ li >= 1 /\ columnMatch
  /\ ev.match.positions[1].col = ev.match.positions[3].col
  /\ log[Len(log)][2] = ev

\* Column c of grid b from top to bottom
ColumnOf(b, c) == [r \in 1..height |-> b[r - 1][c]]

IsPiece(v) == v # Empty

\* The pieces of column c, top to bottom, without the undefined cells
Survivors(b, c) == SelectSeq(ColumnOf(b, c), IsPiece)

\* Number of undefined cells in column c, and in the columns left of c
Holes(b, c) == height - Len(Survivors(b, c))

RECURSIVE HolesLeftOf(_, _)
HolesLeftOf(b, c) == IF c = 0 THEN 0 ELSE HolesLeftOf(b, c - 1) + Holes(b, c - 1)

\* Column c after gravity: the values generated for it on top, the lower cell holding
\* the earlier value, and the surviving pieces below in their order
Settled(b, c, values) ==
  [r \in 1..height |->
     IF r <= Holes(b, c) THEN values[HolesLeftOf(b, c) + Holes(b, c) - r + 1]
     ELSE Survivors(b, c)[r - Holes(b, c)]]

\* C15: one refill leaves in every column the surviving pieces compacted at the bottom
\* in their order and, above them, as many generated values as the column had
\* undefined cells; the generator is called once per undefined cell, columns left to
\* right and within a column the lower cell first; a column without an undefined
\* cell is unchanged.
C15_GravityRefill ==
  [][(pc = "alertRefill" /\ pc' = "scanColumns") =>
       /\ Len(drawn') = HolesLeftOf(board, width)
       /\ IsGrid(board')
       /\ \A c \in 0..(width - 1) :
             /\ ColumnOf(board', c) = Settled(board, c, drawn')
             /\ Holes(board, c) = 0 => ColumnOf(board', c) = ColumnOf(board, c)
       /\ generator.kind = "seq" =>
             /\ generator'.index =
                   (generator.index + Len(drawn')) % Len(generator.sequence)
             /\ \A i \in 1..Len(drawn') :
                   drawn'[i] = generator.sequence[((generator.index + i - 1)
                                                     % Len(generator.sequence)) + 1]]_vars

\* C15 witness: a refill has filled a 2 x 3 grid with four values: the first went on
\* top of the two pieces of column 0, the next three into column 1 from the bottom up
C15_Witness ==
  /\ pc = "scanColumns" /\ op = "refillBoard" /\ height = 3 /\ width = 2
  /\ drawn = <<"A", "B", "A", "B">>
  /\ ColumnOf(board, 0) = <<"A", "B", "B">>
  /\ ColumnOf(board, 1) = <<"B", "A", "B">>

\* Distance between two cells of one row or one column
Distance(p, q) ==
  (IF p.row >= q.row THEN p.row - q.row ELSE q.row - p.row)
  + (IF p.col >= q.col THEN p.col - q.col ELSE q.col - p.col)

\* The swaps that can have produced grid b from a board at rest: pairs whose exchange
\* in b gives a grid without a run on which canMove accepts the pair
Origins(b) ==
  {ab \in Cells \X Cells :
     /\ ~HasRun(Exchanged(b, ab[1], ab[2]))
     /\ canMove(Exchanged(b, ab[1], ab[2]), ab[1], ab[2]).result}

\* Two cells of one row or one column, two or more apart, whose exchange makes a run
FarSwaps(b) ==
  {ab \in Cells \X Cells :
     /\ (ab[1].row = ab[2].row \/ ab[1].col = ab[2].col)
     /\ Distance(ab[1], ab[2]) >= 2
     /\ b[ab[1].row][ab[1].col] # b[ab[2].row][ab[2].col]
     /\ HasRun(Exchanged(b, ab[1], ab[2]))}

\* C16: a legal swap need not exchange neighbours.  On a board at rest canMove accepts
\* every pair of cells of one row or column whose exchange makes a run, however far
\* apart, and accepts no pair that shares neither row nor column; the swap move
\* applies is the exchange of such a pair and leaves a run for the resolve loop.
C16_AnyDistance ==
  [][/\ (pc = "returned" /\ pc' = "idle") =>
          /\ \A ab \in FarSwaps(board) : canMove(board, ab[1], ab[2]).result
          /\ \A a \in Cells, b \in Cells :
                canMove(board, a, b).result => (a.row = b.row \/ a.col = b.col)
     /\ (pc = "idle" /\ op' = "move" /\ ret' = TRUE) =>
          /\ pc' = "scanColumns" /\ HasRun(board')
          /\ \E a \in Cells, b \in Cells :
                /\ (a.row = b.row \/ a.col = b.col)
                /\ canMove(board, a, b).result
                /\ board' = Exchanged(board, a, b)]_vars

\* C16 witness: move has applied a swap, and every swap that leads from a board at
\* rest to this grid exchanges two cells at distance two or more
C16_Witness ==
  /\ pc = "scanColumns" /\ op = "move" /\ ret = TRUE /\ drawn = <<>>
  /\ Origins(board) # {}
  /\ \A ab \in Origins(board) : Distance(ab[1], ab[2]) >= 2

\* C17: construction asks the generator for width * height values and puts the
\* (r * width + c)-th of them, counting from 0, into cell (r, c), as create of the
\* functional board does; a SequenceGenerator hands out its sequence cyclically from
\* its first character; when this fill holds no run, the constructor emits no event,
\* asks for no further value and returns that grid; values are asked for only by the
\* fill and by refills.
C17_FillOrder ==
  [][/\ pc = "new" =>
          /\ Len(drawn') = width * height
          /\ \A p \in Cells : board'[p.row][p.col] = drawn'[p.row * width + p.col + 1]
          /\ IsGrid(board')
          /\ \E d \in Draws(generator, width * height) :
                /\ d.values = drawn'
                /\ create(d, width, height).data = board'
                /\ create(d, width, height).generator = generator'
          /\ generator.kind = "seq" =>
                /\ \A i \in 1..(width * height) :
                      drawn'[i] = generator.sequence[((i - 1) % Len(generator.sequence)) + 1]
                /\ generator'.index = (width * height) % Len(generator.sequence)
          /\ log' = <<>> /\ pc' = "scanColumns"
     /\ (op = "constructor" /\ pc \in {"scanColumns", "scanRows", "scanned"}
           /\ ~HasRun(board)) =>
          /\ board' = board /\ generator' = generator /\ log' = log /\ ev' = NoEvent
          /\ pc' \in {"scanRows", "scanned", "returned"}
     /\ (generator' # generator \/ (drawn' # drawn /\ drawn' # <<>>)) =>
          pc \in {"new", "alertRefill"}]_vars

\* C17 witness: the board init() builds, 4 x 3 from SequenceGenerator("ABA"): its fill
\* A B A A / B A A B / A A B A holds no run and the constructor has returned it
C17_Witness ==
  /\ pc = "returned" /\ op = "constructor"
  /\ generator = [kind |-> "seq", sequence |-> <<"A", "B", "A">>, index |-> 0]
  /\ width = 4 /\ height = 3
  /\ board[0] = [c \in 0..3 |-> <<"A", "B", "A", "A">>[c + 1]]
  /\ board[1] = [c \in 0..3 |-> <<"B", "A", "A", "B">>[c + 1]]
  /\ board[2] = [c \in 0..3 |-> <<"A", "A", "B", "A">>[c + 1]]
  /\ log = <<>>

\* C18: the grid create returns holds no run of three, for every generator and size.
C18_CreateStable ==
  pc = "new" =>
    \A d \in Draws(generator, width * height) : ~HasRun(create(d, width, height).data)

\* C20: when a listener raises during move, the failure reaches the caller of move:
\* the listeners registered after it are not called for the event, no further event
\* is emitted and the grid is changed no further, and nothing is rolled back: the
\* swap is still applied (the run it made is on the grid when a Match was being
\* delivered) and the cells cleared before a Refill are still undefined.
C20_ListenerFailure ==
  [][/\ pc' = "raised" =>
          /\ pc \in {"alertColumn", "alertRow", "alertRefill", "raised"}
          /\ pc # "raised" =>
                /\ log' = Append(log, <<listeners[li + 1], ev>>)
                /\ board' = board /\ generator' = generator /\ matches' = matches
                /\ ev' = ev /\ li' = li /\ listeners' = listeners
                /\ op = "move"
                /\ ev.kind = "Match" => (ValidMatch(ev, board') /\ HasRun(board'))
                /\ ev.kind = "Refill" => HasEmpty(board')
     /\ pc = "raised" => FALSE]_vars

\* C20 witness: the first of two listeners has raised on the Refill event of a move;
\* the second was not called, and the cleared cells are still undefined
C20_Witness ==
  /\ pc = "raised" /\ op = "move" /\ Len(listeners) = 2 /\ li = 0
  /\ ev = RefillEvent /\ HasEmpty(board)
  /\ log[Len(log)] = <<1, RefillEvent>>

\* The three cells of match m hold one piece value in grid b
IsRun(m, b) ==
  /\ \A j \in 1..3 : m.positions[j] \in Cells
  /\ b[m.positions[1].row][m.positions[1].col] \in Values
  /\ \A j \in 2..3 : b[m.positions[j].row][m.positions[j].col]
                        = b[m.positions[1].row][m.positions[1].col]

\* C19: also when a listener calls move from inside a callback, every match whose
\* cells doMatch clears is a run of three equal pieces on the grid at that moment,
\* and the operation returns with a grid that is complete and holds no run.
C19_ReentrantSafe ==
  [][/\ (pc = "scanned" /\ pc' = "alertRefill") =>
          \A k \in 1..Len(matches) : IsRun(matches[k], board)
     /\ pc' = "returned" =>
          (~HasRun(board') /\ \A p \in Cells : board'[p.row][p.col] \in Values)]_vars

====
